---- MODULE Spec2Model ----
(***************************************************************************)
(* State/event coordination layer of the CRUD page: AppStateManager        *)
(* (in-memory data + localStorage), AppComponent (event handlers),         *)
(* FormComponent (create/edit mode, submit) and TableComponent (row        *)
(* buttons, delete-confirmation popup, restore popups).                    *)
(*                                                                         *)
(* Encodings.  A value that may be null/undefined is a sequence of length  *)
(* 0 (null) or 1.  A record id is the number of milliseconds read from the *)
(* clock (its decimal string in the code; toString is injective).  The     *)
(* eight string fields of a record travel verbatim and are one token,      *)
(* "val"; "age" is typed as a numeral and parsed.  An element of the       *)
(* persisted deleted list is a record, or [list |-> s] for a nested array. *)
(***************************************************************************)
EXTENDS Integers, Sequences, FiniteSets, TLC

VARIABLES
    now,              \* last value read from the wall clock (ms)
    stateManager,     \* AppStateManager: [data, deletedData]
    localStorage,     \* [appStateData, appStateDeletedData], each null or a list
    dataToBeRestore,  \* AppComponent.dataToBeRestore
    isEditMode,       \* FormComponent.isEditMode of the live form
    editId,           \* FormComponent.editId of the live form
    formValues,       \* values the live form's fields were rendered with
    errors,           \* FormComponent.errors of the live form: the fields in error
    tableRows,        \* ids of the rows of the last TableComponent.render
    tableListeners,   \* click listeners accumulated on #tableContainer
    deletePopup,      \* id captured by the open .delete-popup, or null
    restorePopups,    \* open .restore-popup elements, grouped by the click that opened them
    reloads,          \* page loads so far
    listeners,        \* EventEmitter.listeners: event name -> callbacks, in order
    calls,            \* observer: the callbacks the last emit invoked, in order
    last,             \* observer: the data handler that ran last, and its id
    deletions,        \* observer: ids deleted since the persisted list was empty
    trip              \* observer: the active list before the last delete

vars == <<now, stateManager, localStorage, dataToBeRestore, isEditMode, editId,
          formValues, errors, tableRows, tableListeners, deletePopup, restorePopups, reloads,
          listeners, calls, last, deletions, trip>>

-----------------------------------------------------------------------------
(* Bounds.  Limits bound the full specification, CapLimits the one of     *)
(* create and delete alone.                                                *)
MaxTime == 2
MaxActive == 2
MaxHistory == 2
MaxListeners == 4
MaxRestorePopups == 1
MaxReloads == 1
MaxSubscribers == 2
MaxOpenPopups == 4

CapTime == 4
CapActive == 4
CapHistory == 4
CapListeners == 9

Limits == [time |-> MaxTime, active |-> MaxActive, history |-> MaxHistory,
           listeners |-> MaxListeners]

CapLimits == [time |-> CapTime, active |-> CapActive, history |-> CapHistory,
              listeners |-> CapListeners]

-----------------------------------------------------------------------------
(* Values *)
None == <<>>
Some(x) == <<x>>

Vals == {"a", "b"}
RawAges == {<<"1", "5">>, <<"5">>, <<>>}
Texts == {<<"d", "e", "l", "e", "t", "e">>,
          <<" ", "D", "e", "l", "e", "t", "e", " ">>,
          <<"d", "e", "l">>}

IsRecord(e) == "id" \in DOMAIN e

-----------------------------------------------------------------------------
(* TableComponent: the text typed in the delete confirmation *)
ToLowerChar(c) ==
    CASE c = "D" -> "d" [] c = "E" -> "e" [] c = "L" -> "l" [] c = "T" -> "t"
      [] OTHER -> c

ToLowerCase(s) == [i \in 1..Len(s) |-> ToLowerChar(s[i])]

RECURSIVE TrimStart(_)
TrimStart(s) == IF s # <<>> /\ Head(s) = " " THEN TrimStart(Tail(s)) ELSE s

RECURSIVE TrimEnd(_)
TrimEnd(s) ==
    IF s # <<>> /\ s[Len(s)] = " " THEN TrimEnd(SubSeq(s, 1, Len(s) - 1)) ELSE s

Trim(s) == TrimEnd(TrimStart(s))

\* Variant: "delete".startsWith(typed text) instead of equality
ConfirmAcceptedPrefix(text) ==
    LET typed == ToLowerCase(Trim(text))
    IN  /\ typed # <<>>
        /\ Len(typed) <= 6
        /\ typed = SubSeq(<<"d", "e", "l", "e", "t", "e">>, 1, Len(typed))

ConfirmAccepted(text) ==
    ToLowerCase(Trim(text)) = <<"d", "e", "l", "e", "t", "e">>

-----------------------------------------------------------------------------
(* validation.ts: the age rules, and the form as a whole *)
NaN == -1

DigitVal(c) ==
    CASE c = "0" -> 0 [] c = "1" -> 1 [] c = "2" -> 2 [] c = "3" -> 3
      [] c = "4" -> 4 [] c = "5" -> 5 [] c = "6" -> 6 [] c = "7" -> 7
      [] c = "8" -> 8 [] c = "9" -> 9 [] OTHER -> NaN

RECURSIVE ParseDigits(_, _)
ParseDigits(s, acc) ==
    IF s = <<>> \/ DigitVal(Head(s)) = NaN THEN acc
    ELSE ParseDigits(Tail(s), 10 * acc + DigitVal(Head(s)))

\* Number.parseInt(s, 10) of a text without a minus sign: blanks in front and
\* one plus sign are skipped, the digits that follow are read, the rest is
\* ignored
ParseInt(s) ==
    LET t == TrimStart(s)
        u == IF t # <<>> /\ Head(t) = "+" THEN Tail(t) ELSE t
    IN  IF u = <<>> \/ DigitVal(Head(u)) = NaN THEN NaN ELSE ParseDigits(u, 0)

\* Number.prototype.toString of a non-negative integer
RECURSIVE Numeral(_)
Numeral(n) ==
    LET d == CHOOSE c \in {"0", "1", "2", "3", "4", "5", "6", "7", "8", "9"} :
                 DigitVal(c) = n % 10
    IN  IF n < 10 THEN <<d>> ELSE Append(Numeral(n \div 10), d)

AgeRequired(value) == Trim(value) # <<>>

AgeValidRange(value) ==
    LET age == ParseInt(value)
    IN  age # NaN /\ age >= 10 /\ age <= 100

\* validation.ts: validationRules and validateField.  A rule that fails gives
\* its message; today is the date the dob rule reads from the clock.
ValidationRules ==
    [name |-> <<"required", "minLength", "maxLength">>,
     email |-> <<"required", "format">>,
     phone |-> <<"required", "format">>,
     dob |-> <<"required", "validDate", "ageLimit">>,
     age |-> <<"required", "validRange">>,
     country |-> <<"required">>,
     state |-> <<"required">>,
     city |-> <<"required">>,
     zip |-> <<"required", "format">>]

ErrorMessage(fieldName, rule) ==
    CASE fieldName = "name" /\ rule = "required" -> "Name is required"
      [] fieldName = "name" /\ rule = "minLength" -> "Name must be 3 characters or more"
      [] fieldName = "name" /\ rule = "maxLength" -> "Name must be 50 characters or less"
      [] fieldName = "email" /\ rule = "required" -> "Email is required"
      [] fieldName = "email" /\ rule = "format" -> "Invalid email format"
      [] fieldName = "phone" /\ rule = "required" -> "Phone number is required"
      [] fieldName = "phone" /\ rule = "format" -> "Phone number must be exactly 10 digits"
      [] fieldName = "dob" /\ rule = "required" -> "Date of birth is required"
      [] fieldName = "dob" /\ rule = "validDate" -> "Invalid date format"
      [] fieldName = "dob" /\ rule = "ageLimit" -> "You must be between 10 and 100 years old"
      [] fieldName = "age" /\ rule = "required" -> "Age is required"
      [] fieldName = "age" /\ rule = "validRange" -> "Age must be between 10 and 100"
      [] fieldName = "country" /\ rule = "required" -> "Country is required"
      [] fieldName = "state" /\ rule = "required" -> "State is required"
      [] fieldName = "city" /\ rule = "required" -> "City is required"
      [] fieldName = "zip" /\ rule = "required" -> "ZIP code is required"
      [] fieldName = "zip" /\ rule = "format" ->
            "Invalid ZIP code format (e.g., 12345 or 12345-6789)"

AllDigits(s) == \A i \in 1..Len(s) : DigitVal(s[i]) # NaN

\* [^\s@]+
Plain(s) == s # <<>> /\ \A k \in 1..Len(s) : s[k] \notin {" ", "@"}

\* /^[^\s@]+@[^\s@]+\.[^\s@]+$/
EmailFormat(value) ==
    \E i, j \in 1..Len(value) :
        /\ i < j
        /\ value[i] = "@"
        /\ value[j] = "."
        /\ Plain(SubSeq(value, 1, i - 1))
        /\ Plain(SubSeq(value, i + 1, j - 1))
        /\ Plain(SubSeq(value, j + 1, Len(value)))

\* /^\d{10}$/
PhoneFormat(value) == Len(value) = 10 /\ AllDigits(value)

\* /^\d{5}(-\d{4})?$/
ZipFormat(value) ==
    \/ Len(value) = 5 /\ AllDigits(value)
    \/ /\ Len(value) = 10
       /\ AllDigits(SubSeq(value, 1, 5))
       /\ value[6] = "-"
       /\ AllDigits(SubSeq(value, 7, 10))

\* new Date(value).getFullYear() for the date-only form YYYY-MM-DD with a day
\* every month has, NaN (Invalid Date) for a text that is no date
DateFullYear(value) ==
    IF /\ Len(value) = 10
       /\ value[5] = "-" /\ value[8] = "-"
       /\ AllDigits(SubSeq(value, 1, 4))
       /\ AllDigits(SubSeq(value, 6, 7))
       /\ AllDigits(SubSeq(value, 9, 10))
       /\ ParseInt(SubSeq(value, 6, 7)) \in 1..12
       /\ ParseInt(SubSeq(value, 9, 10)) \in 1..28
    THEN ParseInt(SubSeq(value, 1, 4))
    ELSE NaN

DobAgeLimit(value, today) ==
    LET age == IF DateFullYear(value) = NaN THEN NaN
               ELSE today - DateFullYear(value)
    IN  age # NaN /\ age >= 10 /\ age <= 100

\* rule.logic(value)
Logic(fieldName, rule, value, today) ==
    CASE rule = "required" -> Trim(value) # <<>>
      [] rule = "minLength" -> Len(value) >= 3
      [] rule = "maxLength" -> Len(value) <= 50
      [] rule = "format" /\ fieldName = "email" -> EmailFormat(value)
      [] rule = "format" /\ fieldName = "phone" -> PhoneFormat(value)
      [] rule = "format" /\ fieldName = "zip" -> ZipFormat(value)
      [] rule = "validDate" -> DateFullYear(value) # NaN
      [] rule = "ageLimit" -> DobAgeLimit(value, today)
      [] rule = "validRange" -> AgeValidRange(value)

\* Variant: the loop runs to the end and the last failing rule gives the message
ValidateFieldLastFailing(fieldName, value, today) ==
    IF fieldName \notin DOMAIN ValidationRules THEN None
    ELSE LET rules == ValidationRules[fieldName]
             failing == {i \in 1..Len(rules) :
                            ~Logic(fieldName, rules[i], value, today)}
         IN  IF failing = {} THEN None
             ELSE Some(ErrorMessage(fieldName,
                          rules[CHOOSE i \in failing : \A j \in failing : j <= i]))

RECURSIVE ForRules(_, _, _, _)
ForRules(fieldName, rules, value, today) ==
    IF rules = <<>> THEN None
    ELSE IF ~Logic(fieldName, Head(rules), value, today)
         THEN Some(ErrorMessage(fieldName, Head(rules)))
         ELSE ForRules(fieldName, Tail(rules), value, today)

ValidateField(fieldName, value, today) ==
    IF fieldName \notin DOMAIN ValidationRules THEN None
    ELSE ForRules(fieldName, ValidationRules[fieldName], value, today)

\* The value of a form field passes its rules
FieldPasses(fieldName, input) ==
    IF fieldName = "age"
    THEN AgeRequired(input.age) /\ AgeValidRange(input.age)
    ELSE input.val # ""

\* FormComponent.validateField: the entry of the field is set or deleted
FormValidateField(errs, fieldName, input) ==
    IF FieldPasses(fieldName, input)
    THEN errs \ {fieldName}
    ELSE errs \cup {fieldName}

\* Variant: the fields after the first failing one are not validated
FieldErrorsFirstFailure(input) ==
    IF input.val = "" THEN errors \cup {"val"}
    ELSE IF AgeRequired(input.age) /\ AgeValidRange(input.age)
         THEN errors \ {"val", "age"}
         ELSE (errors \ {"val"}) \cup {"age"}

\* this.errors after the forEach of validateForm over the fields
FieldErrors(input) ==
    FormValidateField(FormValidateField(errors, "val", input), "age", input)

\* Variant: isValid follows the field validated last
ValidateFormLastField(input) == "age" \notin FieldErrors(input)

ValidateForm(input) == FieldErrors(input) = {}

-----------------------------------------------------------------------------
(* EventEmitter.  listeners is a plain object: a name it has no property for *)
(* is looked up in Object.prototype, whose members are not arrays.           *)
ObjectPrototype == {"toString", "constructor"}

\* this.listeners[eventName] is an inherited member: the array method called
\* on it is undefined and the call throws a TypeError
Throws(reg, eventName) ==
    eventName \notin DOMAIN reg /\ eventName \in ObjectPrototype

On(reg, eventName, callback) ==
    IF eventName \in DOMAIN reg
    THEN [reg EXCEPT ![eventName] = Append(@, callback)]
    ELSE (eventName :> <<callback>>) @@ reg

RECURSIVE ForEach(_, _)
ForEach(eventListeners, args) ==
    IF eventListeners = <<>> THEN <<>>
    ELSE <<[callback |-> Head(eventListeners), args |-> args]>>
            \o ForEach(Tail(eventListeners), args)

\* Variant: a callback registered more than once is invoked once
EmitDistinct(reg, eventName, args) ==
    IF eventName \in DOMAIN reg
    THEN LET eventListeners == reg[eventName]
             firsts == SelectSeq([i \in 1..Len(eventListeners) |-> i],
                           LAMBDA i : \A j \in 1..(i - 1) :
                                         eventListeners[j] # eventListeners[i])
         IN  [k \in 1..Len(firsts) |->
                 [callback |-> eventListeners[firsts[k]], args |-> args]]
    ELSE <<>>

\* The invocations emit makes, in order
Emit(reg, eventName, args) ==
    IF eventName \in DOMAIN reg THEN ForEach(reg[eventName], args) ELSE <<>>

\* Variant: only the first matching listener is taken out (indexOf, splice)
RemoveFirstMatch(reg, eventName, callback) ==
    IF eventName \in DOMAIN reg
    THEN LET eventListeners == reg[eventName]
             hits == {i \in 1..Len(eventListeners) : eventListeners[i] = callback}
             index == CHOOSE i \in hits : \A j \in hits : i <= j
         IN  IF hits = {} THEN reg
             ELSE [reg EXCEPT ![eventName] =
                      SubSeq(eventListeners, 1, index - 1)
                         \o SubSeq(eventListeners, index + 1, Len(eventListeners))]
    ELSE reg

Remove(reg, eventName, callback) ==
    IF eventName \in DOMAIN reg
    THEN [reg EXCEPT ![eventName] = SelectSeq(@, LAMBDA listener : listener # callback)]
    ELSE reg

\* AppComponent.addEventListeners on the emitter the constructor has just made
AppListeners ==
    On(On(On(On(On(On(On(<<>>,
        "formSubmit", "addData"),
        "editItem", "editItem"),
        "updateFormData", "updateData"),
        "showDeleteConfirmation", "showDeleteConfirmation"),
        "showRestoreModal", "showRestoreModal"),
        "deleteData", "handleDeleteData"),
        "restoreDeleteData", "handleRestoreDeleteData")

-----------------------------------------------------------------------------
(* Array helpers *)
HasId(e, id) == IsRecord(e) /\ e.id = id

FilterOut(s, id) == SelectSeq(s, LAMBDA e : ~HasId(e, id))

FilterId(s, id) == SelectSeq(s, LAMBDA e : HasId(e, id))

Find(s, id) ==
    LET m == FilterId(s, id)
    IN  IF m = <<>> THEN None ELSE Some(Head(m))

Ids(s) == [i \in 1..Len(s) |-> s[i].id]

-----------------------------------------------------------------------------
(* AppStateManager.  A world is the manager's fields together with the     *)
(* two localStorage entries.                                               *)
World == [data |-> stateManager.data,
          deletedData |-> stateManager.deletedData,
          appStateData |-> localStorage.appStateData,
          appStateDeletedData |-> localStorage.appStateDeletedData]

GetDeletedData(w) ==
    IF w.appStateDeletedData # None THEN w.appStateDeletedData[1] ELSE <<>>

\* JSON.parse(JSON.stringify(x)): strings and finite numbers come back as they
\* were, NaN comes back as null
JsonNull == -2

RECURSIVE Json(_)
Json(s) ==
    [i \in 1..Len(s) |->
        IF IsRecord(s[i])
        THEN [s[i] EXCEPT !.age = IF @ = NaN THEN JsonNull ELSE @]
        ELSE [list |-> Json(s[i].list)]]

\* deletedData.timeStamp = ...; JSON.stringify drops a property set on an array
Stamp(d, t) == IF IsRecord(d) THEN [d EXCEPT !.timeStamp = t] ELSE d

DeleteData(w, t) ==
    LET getDeletedData == Append(GetDeletedData(w), Stamp(w.deletedData[1], t))
    IN  [w EXCEPT !.appStateDeletedData = Some(Json(getDeletedData)),
                  !.deletedData = None]

SaveData(w, t) ==
    LET w1 == [w EXCEPT !.appStateData = Some(Json(w.data))]
    IN  IF w1.deletedData # None THEN DeleteData(w1, t) ELSE w1

\* Variant: the list is saved before the new one is assigned
SetDataSavedFirst(w, newData, t) == [SaveData(w, t) EXCEPT !.data = newData]

\* Variant: the new records are pushed onto the list
SetDataPushed(w, newData, t) == SaveData([w EXCEPT !.data = w.data \o newData], t)

SetData(w, newData, t) == SaveData([w EXCEPT !.data = newData], t)

\* setDeletedData: the array goes into the staging field and saveData runs
SetDeletedData(w, newDeletedData, t) ==
    SaveData([w EXCEPT !.deletedData = Some([list |-> newDeletedData])], t)

\* Variant: each field is read from the other entry
LoadDataSwapped(ls) ==
    [data |-> IF ls.appStateDeletedData # None THEN ls.appStateDeletedData[1]
              ELSE <<>>,
     deletedData |-> IF ls.appStateData # None
                     THEN Some([list |-> ls.appStateData[1]])
                     ELSE None]

LoadData(ls) ==
    [data |-> IF ls.appStateData # None THEN ls.appStateData[1] ELSE <<>>,
     deletedData |-> IF ls.appStateDeletedData # None
                     THEN Some([list |-> ls.appStateDeletedData[1]])
                     ELSE None]

-----------------------------------------------------------------------------
(* AppComponent handlers, as functions on worlds *)
\* Variant: the new record is appended
AddDataAppended(w, d, t) == SetData(w, w.data \o <<d>>, t)

AddData(w, d, t) == SetData(w, <<d>> \o w.data, t)

\* Variant: the edited record is taken out and the new one put first
UpdateDataMovedFirst(w, d, toBeRestore, t) ==
    LET updatedData == <<d>> \o SelectSeq(w.data, LAMBDA e : e.id # d.id)
    IN  SetData([w EXCEPT !.deletedData = toBeRestore], updatedData, t)

\* Variant: the prior value is not staged
UpdateDataUnstaged(w, d, toBeRestore, t) ==
    LET updatedData == [i \in 1..Len(w.data) |->
                          IF w.data[i].id = d.id THEN d ELSE w.data[i]]
    IN  SetData(w, updatedData, t)

UpdateData(w, d, toBeRestore, t) ==
    LET updatedData == [i \in 1..Len(w.data) |->
                          IF w.data[i].id = d.id THEN d ELSE w.data[i]]
    IN  SetData([w EXCEPT !.deletedData = toBeRestore], updatedData, t)

\* Variant: findIndex and splice(index, 1); index -1 takes the last record out
HandleDeleteDataSpliced(w, id, t) ==
    LET foundItem == Find(w.data, id)
        updatedData == IF foundItem # None THEN FilterOut(w.data, id)
                       ELSE SubSeq(w.data, 1, Len(w.data) - 1)
    IN  SetData([w EXCEPT !.deletedData = foundItem], updatedData, t)

\* Variant: the found record is not staged
HandleDeleteDataUnstaged(w, id, t) ==
    LET updatedData == FilterOut(w.data, id)
    IN  SetData(w, updatedData, t)

HandleDeleteData(w, id, t) ==
    LET foundItem == Find(w.data, id)
        updatedData == FilterOut(w.data, id)
    IN  SetData([w EXCEPT !.deletedData = foundItem], updatedData, t)

HandleRestoreDeleteData(w, id, t) ==
    LET updatedData == FilterOut(w.data, id)
    IN  SetData([w EXCEPT !.deletedData = None], updatedData, t)

-----------------------------------------------------------------------------
History == GetDeletedData(World)

RECURSIVE CountPopups(_)
CountPopups(s) == IF s = <<>> THEN 0 ELSE Head(s).n + CountPopups(Tail(s))

OpenRestorePopups == CountPopups(restorePopups)

\* Variant: the rows are written last record first
TableRenderReversed(data) ==
    IF Len(data) > 0 THEN [i \in 1..Len(data) |-> data[Len(data) + 1 - i].id]
    ELSE <<>>

\* TableComponent.render(data): one row per record, its three buttons carrying
\* the record's id; without records, one cell of text and no button
TableRender(data) == IF Len(data) > 0 THEN Ids(data) ELSE <<>>

\* The new world becomes the state; the table is rendered from getData()
Commit(w, lim) ==
    /\ Len(w.data) <= lim.active
    /\ Len(GetDeletedData(w)) <= lim.history
    /\ tableListeners < lim.listeners
    /\ stateManager' = [data |-> w.data, deletedData |-> w.deletedData]
    /\ localStorage' = [appStateData |-> w.appStateData,
                        appStateDeletedData |-> w.appStateDeletedData]
    /\ tableRows' = TableRender(w.data)

\* The values FormComponent.render puts in the fields
EmptyFields == [val |-> "", age |-> <<>>]

FormFields(editData) == [val |-> editData.val, age |-> Numeral(editData.age)]

\* Variant: rendered without an item, the fields keep what they held
FormRenderKeepingFields(editData) ==
    /\ isEditMode' = (editData # None)
    /\ editId' = IF editData # None THEN Some(editData[1].id) ELSE None
    /\ formValues' = IF editData # None THEN FormFields(editData[1]) ELSE formValues

\* FormComponent.render(editData)
FormRender(editData) ==
    /\ isEditMode' = (editData # None)
    /\ editId' = IF editData # None THEN Some(editData[1].id) ELSE None
    /\ formValues' = IF editData # None THEN FormFields(editData[1]) ELSE EmptyFields

\* new FormComponent(...) followed by render()
NewForm == FormRender(None) /\ errors' = {}

\* Observers
NoLog == [ok |-> FALSE, ids |-> <<>>]

Track(w) == IF GetDeletedData(w) = History THEN deletions ELSE NoLog

Init ==
    /\ now = 1
    /\ stateManager = [data |-> <<>>, deletedData |-> None]
    /\ localStorage = [appStateData |-> None, appStateDeletedData |-> None]
    /\ dataToBeRestore = None
    /\ isEditMode = FALSE
    /\ editId = None
    /\ formValues = EmptyFields
    /\ errors = {}
    /\ tableRows = <<>>
    /\ tableListeners = 1
    /\ deletePopup = None
    /\ restorePopups = <<>>
    /\ reloads = 0
    /\ listeners = AppListeners
    /\ calls = <<>>
    /\ last = [op |-> "load", id |-> 0]
    /\ deletions = [ok |-> TRUE, ids |-> <<>>]
    /\ trip = None

\* FormComponent.handleSubmit: the record built from the form
FormRecord(input, t) ==
    [id |-> IF editId # None THEN editId[1] ELSE t,
     val |-> input.val,
     age |-> ParseInt(input.age),
     timeStamp |-> t]

\* FormComponent.handleSubmit in create-mode, then AppComponent.addData
SubmitCreate(input, t, lim) ==
    /\ ~isEditMode
    /\ ValidateForm(input)
    /\ LET w == AddData(World, FormRecord(input, t), t)
       IN  /\ Commit(w, lim)
           /\ deletions' = Track(w)
    /\ last' = [op |-> "formSubmit", id |-> FormRecord(input, t).id]
    /\ now' = t
    /\ tableListeners' = tableListeners + 1
    /\ errors' = {}
    /\ FormRender(None)
    /\ trip' = None
    /\ UNCHANGED <<dataToBeRestore, deletePopup, restorePopups, reloads>>
    /\ UNCHANGED <<listeners, calls>>

\* FormComponent.handleSubmit in edit-mode, then AppComponent.updateData
SubmitUpdate(input, t, lim) ==
    /\ isEditMode
    /\ ValidateForm(input)
    /\ LET w == UpdateData(World, FormRecord(input, t), dataToBeRestore, t)
       IN  /\ Commit(w, lim)
           /\ deletions' = Track(w)
    /\ last' = [op |-> "updateFormData", id |-> FormRecord(input, t).id]
    /\ now' = t
    /\ tableListeners' = tableListeners + 1
    /\ dataToBeRestore' = None
    /\ errors' = {}
    /\ FormRender(None)
    /\ trip' = None
    /\ UNCHANGED <<deletePopup, restorePopups, reloads>>
    /\ UNCHANGED <<listeners, calls>>

\* FormComponent.handleSubmit when validateForm() fails: nothing is emitted,
\* the fields in error stay in this.errors
SubmitRejected(input) ==
    /\ ~ValidateForm(input)
    /\ errors' = FieldErrors(input)
    /\ UNCHANGED <<now, stateManager, localStorage, dataToBeRestore, isEditMode,
                   editId, formValues, tableRows, tableListeners, deletePopup,
                   restorePopups, reloads, last, deletions, trip>>
    /\ UNCHANGED <<listeners, calls>>

\* Variant: the form is rendered without the item
EditItemCreateMode(id) ==
    LET itemToEdit == Find(stateManager.data, id)
    IN  IF itemToEdit # None
        THEN /\ dataToBeRestore' = itemToEdit
             /\ FormRender(None)
        ELSE UNCHANGED <<dataToBeRestore, isEditMode, editId, formValues>>

\* TableComponent click listener, "edit" branch: every accumulated listener
\* emits editItem(id); AppComponent.editItem is idempotent
EditItem(id) ==
    LET itemToEdit == Find(stateManager.data, id)
    IN  IF itemToEdit # None
        THEN /\ dataToBeRestore' = itemToEdit
             /\ FormRender(itemToEdit)
        ELSE UNCHANGED <<dataToBeRestore, isEditMode, editId, formValues>>

ClickEdit(i) ==
    /\ i \in 1..Len(tableRows)
    /\ EditItem(tableRows[i])
    /\ UNCHANGED <<errors, now, stateManager, localStorage, tableRows, tableListeners,
                   deletePopup, restorePopups, reloads, last, deletions, trip>>
    /\ UNCHANGED <<listeners, calls>>

\* TableComponent click listener, "delete" branch: the first listener opens the
\* popup, the others find .delete-popup in the document
ClickDelete(i) ==
    /\ i \in 1..Len(tableRows)
    /\ deletePopup = None
    /\ deletePopup' = Some(tableRows[i])
    /\ UNCHANGED <<now, stateManager, localStorage, dataToBeRestore, isEditMode,
                   editId, formValues, errors, tableRows, tableListeners, restorePopups, reloads, last,
                   deletions, trip>>
    /\ UNCHANGED <<listeners, calls>>

\* #confirmDeleteButton: emits deleteData(id) -> AppComponent.handleDeleteData,
\* which ends with initializeComponents (new form, table render)
ConfirmDelete(text, t, lim) ==
    /\ deletePopup # None
    /\ IF ConfirmAccepted(text)
       THEN /\ LET id == deletePopup[1]
                   found == Find(stateManager.data, id)
                   w == HandleDeleteData(World, id, t)
               IN  /\ Commit(w, lim)
                   /\ deletions' = IF found # None /\ deletions.ok
                                   THEN [deletions EXCEPT !.ids = Append(@, id)]
                                   ELSE Track(w)
                   /\ trip' = IF found # None
                              THEN Some([id |-> id, rec |-> found[1],
                                         data |-> stateManager.data,
                                         entries |-> Len(FilterId(History, id)),
                                         restored |-> FALSE])
                              ELSE None
                   /\ last' = [op |-> "deleteData", id |-> id]
            /\ now' = t
            /\ tableListeners' = tableListeners + 1
            /\ NewForm
            /\ deletePopup' = None
       ELSE /\ t = now
            /\ last' = [op |-> "alert", id |-> deletePopup[1]]
            /\ UNCHANGED <<now, stateManager, localStorage, tableRows,
                           tableListeners, isEditMode, editId, formValues, errors,
                           deletePopup,
                           deletions, trip>>
    /\ UNCHANGED <<dataToBeRestore, restorePopups, reloads>>
    /\ UNCHANGED <<listeners, calls>>

\* Variant: the cancel button runs the confirm handler on an accepted text
CancelDeleteConfirming ==
    ConfirmDelete(<<"d", "e", "l", "e", "t", "e">>, now, Limits)

\* #cancelDeleteButton
CancelDelete ==
    /\ deletePopup # None
    /\ deletePopup' = None
    /\ UNCHANGED <<now, stateManager, localStorage, dataToBeRestore, isEditMode,
                   editId, formValues, errors, tableRows, tableListeners, restorePopups, reloads, last,
                   deletions, trip>>
    /\ UNCHANGED <<listeners, calls>>

\* TableComponent click listener, "restore" branch: every accumulated listener
\* opens its own popup over the entries of the persisted list with that id
OpenRestorePopup(id) ==
    [items |-> FilterId(History, id), n |-> tableListeners]

ClickRestore(i) ==
    /\ i \in 1..Len(tableRows)
    /\ OpenRestorePopups + tableListeners <= MaxRestorePopups
    /\ restorePopups' = Append(restorePopups, OpenRestorePopup(tableRows[i]))
    /\ UNCHANGED <<now, stateManager, localStorage, dataToBeRestore, isEditMode,
                   editId, formValues, errors, tableRows, tableListeners, deletePopup, reloads, last,
                   deletions, trip>>
    /\ UNCHANGED <<listeners, calls>>

RemovePopup(g) ==
    IF restorePopups[g].n > 1
    THEN [restorePopups EXCEPT ![g].n = @ - 1]
    ELSE [k \in 1..(Len(restorePopups) - 1) |->
             IF k < g THEN restorePopups[k] ELSE restorePopups[k + 1]]

\* #closeRestorePopup
CloseRestorePopup(g) ==
    /\ g \in 1..Len(restorePopups)
    /\ restorePopups' = RemovePopup(g)
    /\ UNCHANGED <<now, stateManager, localStorage, dataToBeRestore, isEditMode,
                   editId, formValues, errors, tableRows, tableListeners, deletePopup, reloads, last,
                   deletions, trip>>
    /\ UNCHANGED <<listeners, calls>>

\* .restore-action-button number j: the row the button's data-id finds
RowData(restoreData, j) == Find(restoreData, restoreData[j].id)[1]

\* TableComponent.handleRestore: restoreDeleteData(id) -> handleRestoreDeleteData,
\* then formSubmit(rowData) -> addData
HandleRestore(w, rowData, t) ==
    AddData(HandleRestoreDeleteData(w, rowData.id, t), rowData, t)

\* .restore-action-button number j of a popup of group g; handleRestoreDeleteData
\* ends with initializeComponents and addData renders the table once more
ClickRestoreAction(g, j, lim) ==
    /\ g \in 1..Len(restorePopups)
    /\ j \in 1..Len(restorePopups[g].items)
    /\ tableListeners + 2 <= lim.listeners
    /\ LET rowData == RowData(restorePopups[g].items, j)
           w == HandleRestore(World, rowData, now)
       IN  /\ Commit(w, lim)
           /\ deletions' = Track(w)
           /\ trip' = IF trip # None /\ trip[1].id = rowData.id /\ ~trip[1].restored
                      THEN Some([trip[1] EXCEPT !.restored = TRUE])
                      ELSE None
           /\ last' = [op |-> "restoreDeleteData", id |-> rowData.id]
    /\ restorePopups' = RemovePopup(g)
    /\ tableListeners' = tableListeners + 2
    /\ NewForm
    /\ UNCHANGED <<now, dataToBeRestore, deletePopup, reloads>>
    /\ UNCHANGED <<listeners, calls>>

\* The page is loaded again: new AppStateManager (loadData), new AppComponent
Reload ==
    /\ reloads < MaxReloads
    /\ reloads' = reloads + 1
    /\ stateManager' = LoadData(localStorage)
    /\ tableRows' = TableRender(LoadData(localStorage).data)
    /\ tableListeners' = 1
    /\ dataToBeRestore' = None
    /\ NewForm
    /\ deletePopup' = None
    /\ restorePopups' = <<>>
    /\ last' = [op |-> "load", id |-> 0]
    /\ trip' = None
    /\ listeners' = AppListeners
    /\ UNCHANGED <<now, localStorage, deletions, calls>>

-----------------------------------------------------------------------------
Inputs == [val : Vals \cup {""}, age : RawAges]

\* The clock read by a handler: the time of the previous read, or later
Times(lim) == {t \in {now, now + 1} : t <= lim.time}

DoSubmitCreate == \E input \in Inputs, t \in Times(Limits) : SubmitCreate(input, t, Limits)

DoSubmitUpdate == \E input \in Inputs, t \in Times(Limits) : SubmitUpdate(input, t, Limits)

DoClickEdit == \E i \in 1..Len(tableRows) : ClickEdit(i)

DoClickDelete == \E i \in 1..Len(tableRows) : ClickDelete(i)

DoConfirmDelete == \E text \in Texts, t \in Times(Limits) : ConfirmDelete(text, t, Limits)

DoClickRestore == \E i \in 1..Len(tableRows) : ClickRestore(i)

DoCloseRestorePopup == \E g \in 1..Len(restorePopups) : CloseRestorePopup(g)

DoClickRestoreAction ==
    \E g \in 1..Len(restorePopups) :
        \E j \in 1..Len(restorePopups[g].items) : ClickRestoreAction(g, j, Limits)

\* The popups are overlays appended to document.body: they disable nothing, so
\* the form and the row buttons (keyboard focus) stay usable while one is open.
Next ==
    \/ DoSubmitCreate
    \/ DoSubmitUpdate
    \/ DoClickEdit
    \/ DoClickDelete
    \/ DoConfirmDelete
    \/ CancelDelete
    \/ DoClickRestore
    \/ DoCloseRestorePopup
    \/ DoClickRestoreAction
    \/ Reload

Spec == Init /\ [][Next]_vars

\* Create and delete alone, with room for four records
CapSubmitCreate ==
    \E input \in Inputs, t \in Times(CapLimits) : SubmitCreate(input, t, CapLimits)

CapConfirmDelete ==
    \E text \in Texts, t \in Times(CapLimits) : ConfirmDelete(text, t, CapLimits)

NextCap ==
    \/ CapSubmitCreate
    \/ DoClickDelete
    \/ CapConfirmDelete

SpecCap == Init /\ [][NextCap]_vars

\* The events of the bus, emitted with any id
EmitIds == 1..MaxTime

\* emit("editItem", id) -> AppComponent.editItem
EmitEditItem(id) ==
    /\ EditItem(id)
    /\ last' = [op |-> "editItem", id |-> id]
    /\ UNCHANGED <<errors, now, stateManager, localStorage, tableRows,
                   tableListeners, deletePopup, restorePopups, reloads, deletions,
                   trip>>
    /\ UNCHANGED <<listeners, calls>>

\* emit("deleteData", id) -> AppComponent.handleDeleteData; the clock is read
\* when a found record is stamped
EmitDeleteData(id, t, lim) ==
    /\ LET found == Find(stateManager.data, id)
           w == HandleDeleteData(World, id, t)
       IN  /\ Commit(w, lim)
           /\ found = None => t = now
           /\ deletions' = IF found # None /\ deletions.ok
                           THEN [deletions EXCEPT !.ids = Append(@, id)]
                           ELSE Track(w)
           /\ trip' = IF found # None
                      THEN Some([id |-> id, rec |-> found[1],
                                 data |-> stateManager.data,
                                 entries |-> Len(FilterId(History, id)),
                                 restored |-> FALSE])
                      ELSE None
    /\ last' = [op |-> "deleteData", id |-> id]
    /\ now' = t
    /\ tableListeners' = tableListeners + 1
    /\ NewForm
    /\ UNCHANGED <<dataToBeRestore, deletePopup, restorePopups, reloads>>
    /\ UNCHANGED <<listeners, calls>>

\* emit("restoreDeleteData", id) -> AppComponent.handleRestoreDeleteData
EmitRestoreDeleteData(id, lim) ==
    /\ LET w == HandleRestoreDeleteData(World, id, now)
       IN  /\ Commit(w, lim)
           /\ deletions' = Track(w)
    /\ trip' = None
    /\ last' = [op |-> "restoreDeleteData", id |-> id]
    /\ tableListeners' = tableListeners + 1
    /\ NewForm
    /\ UNCHANGED <<now, dataToBeRestore, deletePopup, restorePopups, reloads>>
    /\ UNCHANGED <<listeners, calls>>

DoEmitEditItem == \E id \in EmitIds : EmitEditItem(id)

DoEmitDeleteData ==
    \E id \in EmitIds, t \in Times(Limits) : EmitDeleteData(id, t, Limits)

DoEmitRestoreDeleteData == \E id \in EmitIds : EmitRestoreDeleteData(id, Limits)

NextEvents ==
    \/ DoSubmitCreate
    \/ DoSubmitUpdate
    \/ DoEmitEditItem
    \/ DoEmitDeleteData
    \/ DoEmitRestoreDeleteData
    \/ Reload

SpecEvents == Init /\ [][NextEvents]_vars

\* AppStateManager alone, called as AppComponent calls it: setData with any
\* list of records, and an assignment to the public field deletedData
StoreRecords ==
    {[id |-> i, val |-> v, age |-> 15, timeStamp |-> i] : i \in 1..MaxTime, v \in Vals}

RECURSIVE StoreLists(_)
StoreLists(n) ==
    IF n = 0 THEN {<<>>}
    ELSE StoreLists(n - 1)
            \cup {Append(x, r) : x \in {y \in StoreLists(n - 1) : Len(y) = n - 1},
                                 r \in StoreRecords}

StoreSetData(x, t, lim) ==
    /\ LET w == SetData(World, x, t)
       IN  /\ Len(GetDeletedData(w)) <= lim.history
           /\ stateManager' = [data |-> w.data, deletedData |-> w.deletedData]
           /\ localStorage' = [appStateData |-> w.appStateData,
                               appStateDeletedData |-> w.appStateDeletedData]
           /\ deletions' = Track(w)
    /\ last' = [op |-> "setData", id |-> 0, newData |-> x]
    /\ now' = t
    /\ trip' = None
    /\ UNCHANGED <<dataToBeRestore, isEditMode, editId, formValues, errors,
                   tableRows, tableListeners, deletePopup, restorePopups, reloads>>
    /\ UNCHANGED <<listeners, calls>>

StoreStage(r) ==
    /\ stateManager' = [stateManager EXCEPT !.deletedData = Some(r)]
    /\ UNCHANGED <<now, last, localStorage, dataToBeRestore, isEditMode, editId,
                   formValues, errors, tableRows, tableListeners, deletePopup,
                   restorePopups, reloads, deletions, trip>>
    /\ UNCHANGED <<listeners, calls>>

StoreSetDeletedData(xs, t, lim) ==
    /\ LET w == SetDeletedData(World, xs, t)
       IN  /\ Len(GetDeletedData(w)) <= lim.history
           /\ stateManager' = [data |-> w.data, deletedData |-> w.deletedData]
           /\ localStorage' = [appStateData |-> w.appStateData,
                               appStateDeletedData |-> w.appStateDeletedData]
           /\ deletions' = Track(w)
    /\ last' = [op |-> "setDeletedData", id |-> 0, newDeletedData |-> xs]
    /\ now' = t
    /\ trip' = None
    /\ UNCHANGED <<dataToBeRestore, isEditMode, editId, formValues, errors,
                   tableRows, tableListeners, deletePopup, restorePopups, reloads>>
    /\ UNCHANGED <<listeners, calls>>

DoStoreSetData ==
    \E x \in StoreLists(MaxActive), t \in Times(Limits) : StoreSetData(x, t, Limits)

DoStoreSetDeletedData ==
    \E xs \in StoreLists(1), t \in Times(Limits) : StoreSetDeletedData(xs, t, Limits)

DoStoreStage == \E r \in StoreRecords : StoreStage(r)

NextStore ==
    \/ DoStoreSetData
    \/ DoStoreStage
    \/ Reload

SpecStore == Init /\ [][NextStore]_vars

\* The history side of AppStateManager: setDeletedData with a list of at most
\* one record, and the staging field
NextDeleted ==
    \/ DoStoreSetDeletedData
    \/ DoStoreStage
    \/ Reload

SpecDeleted == Init /\ [][NextDeleted]_vars

\* The emitter alone: a client registers, removes and emits under names of
\* its own, one of them a name Object.prototype has a member for
BusNames == {"ping", "pong", "toString"}

Callbacks == {"f", "g"}

BusArgs == {<<>>, <<"x">>}

\* Everything but the emitter
pageVars == <<now, stateManager, localStorage, dataToBeRestore, isEditMode, editId,
              formValues, errors, tableRows, tableListeners, deletePopup,
              restorePopups, reloads, deletions, trip>>

BusOn(eventName, callback) ==
    /\ eventName \in DOMAIN listeners => Len(listeners[eventName]) < MaxSubscribers
    /\ listeners' = IF Throws(listeners, eventName) THEN listeners
                    ELSE On(listeners, eventName, callback)
    /\ last' = [op |-> "on", id |-> 0, eventName |-> eventName,
                callback |-> callback, threw |-> Throws(listeners, eventName)]
    /\ UNCHANGED <<calls, pageVars>>

BusEmit(eventName, args) ==
    /\ calls' = Emit(listeners, eventName, args)
    /\ last' = [op |-> "emit", id |-> 0, eventName |-> eventName, args |-> args,
                threw |-> Throws(listeners, eventName)]
    /\ UNCHANGED <<listeners, pageVars>>

BusRemove(eventName, callback) ==
    /\ listeners' = Remove(listeners, eventName, callback)
    /\ last' = [op |-> "remove", id |-> 0, eventName |-> eventName,
                callback |-> callback, threw |-> Throws(listeners, eventName),
                removed |-> IF eventName \in DOMAIN listeners
                            THEN Len(listeners[eventName])
                                   - Len(Remove(listeners, eventName, callback)[eventName])
                            ELSE 0]
    /\ UNCHANGED <<calls, pageVars>>

DoBusOn == \E eventName \in BusNames, callback \in Callbacks : BusOn(eventName, callback)

DoBusEmit == \E eventName \in BusNames, args \in BusArgs : BusEmit(eventName, args)

DoBusRemove ==
    \E eventName \in BusNames, callback \in Callbacks : BusRemove(eventName, callback)

NextBus ==
    \/ DoBusOn
    \/ DoBusEmit
    \/ DoBusRemove

SpecBus == Init /\ [][NextBus]_vars

\* validateField alone, called with a field name, a text and, for the dob
\* rule, the year the clock shows at the call; the clock does not go back
FieldNames == DOMAIN ValidationRules \cup {"nickname"}

Values ==
    {<<>>,
     <<" ", " ", " ">>,
     <<"a", "b">>,
     <<"a", "n", "a">>,
     <<"a", "@", "b">>,
     <<"a", "@", "b", ".", "c", "o", "m">>,
     <<"1", "2", "3", "4", "5">>,
     <<"1", "2", "3", "4", "5", "-", "6", "7", "8", "9">>,
     <<"5", "5", "5", "1", "2", "3", "4", "5", "6", "7">>,
     <<"1", "5">>,
     <<"5">>,
     <<"U", "S", "A">>,
     <<"9">>,
     <<"1", "0">>,
     <<"1", "0", "0">>,
     <<"1", "0", "1">>,
     <<"1", "5", "a", "b", "c">>,
     <<"1", "5", ".", "9">>,
     <<" ", "1", "5">>,
     [i \in 1..51 |-> "a"]}

DobValues ==
    {<<>>,
     <<" ">>,
     <<"a", "b", "c">>,
     <<"2", "0", "1", "5", "-", "0", "6", "-", "1", "5">>,
     <<"2", "0", "0", "0", "-", "0", "6", "-", "1", "5">>,
     <<"1", "9", "2", "4", "-", "0", "6", "-", "1", "5">>}

Years == {2024, 2025}

\* The age rule parses its value: it gets the texts of at most five characters
ValuesOf(fieldName) ==
    CASE fieldName = "dob" -> DobValues
      [] fieldName = "age" -> {value \in Values : Len(value) <= 5}
      [] OTHER -> Values

CallValidateField(fieldName, value, today) ==
    /\ last.op = "validateField" => today >= last.today
    /\ last' = [op |-> "validateField", id |-> 0, fieldName |-> fieldName,
                value |-> value, today |-> today,
                result |-> ValidateField(fieldName, value, today)]
    /\ UNCHANGED <<listeners, calls, pageVars>>

DoValidateField ==
    \E fieldName \in FieldNames, today \in Years :
        \E value \in ValuesOf(fieldName) : CallValidateField(fieldName, value, today)

NextValidate == DoValidateField

SpecValidate == Init /\ [][NextValidate]_vars

\* The form alone: create, edit, update, and submits that fail validation
DoSubmitRejected == \E input \in Inputs : SubmitRejected(input)

NextForm ==
    \/ DoSubmitCreate
    \/ DoSubmitUpdate
    \/ DoClickEdit
    \/ DoSubmitRejected

SpecForm == Init /\ [][NextForm]_vars

-----------------------------------------------------------------------------
(* Construction of the components on their mount points.  A page that has    *)
(* rendered its table holds the three containers; a page whose bootstrap     *)
(* found no #app has constructed nothing.                                    *)
Mounted == tableListeners > 0

Document == IF Mounted THEN {"app", "formContainer", "tableContainer"} ELSE {}

\* Variant: every id is found
GetElementByIdAny(elementId) == TRUE

\* document.getElementById(elementId) is not null
GetElementById(elementId) == elementId \in Document

\* The constructor calls made: each class on its own container and on an id
\* no page has
ComponentMounts ==
    {<<"AppComponent", "app">>, <<"FormComponent", "formContainer">>,
     <<"TableComponent", "tableContainer">>}
        \cup {<<kind, "sidebar">> :
                 kind \in {"AppComponent", "FormComponent", "TableComponent"}}

\* new AppComponent(elementId), new FormComponent(elementId, emitter) or
\* new TableComponent(elementId, emitter) in the current page: the
\* BaseComponent constructor runs first and throws when the id is not found;
\* a view is then only bound, an AppComponent makes its emitter, takes the
\* existing AppStateManager, renders, makes its views and subscribes
NewComponent(kind, elementId) ==
    /\ last' = [op |-> "new", id |-> 0, kind |-> kind, elementId |-> elementId,
                threw |-> ~GetElementById(elementId)]
    /\ IF GetElementById(elementId) /\ kind = "AppComponent"
       THEN /\ listeners' = AppListeners
            /\ tableRows' = TableRender(stateManager.data)
            /\ tableListeners' = 1
            /\ dataToBeRestore' = None
            /\ NewForm
            /\ UNCHANGED <<now, stateManager, localStorage, deletePopup,
                           restorePopups, reloads, calls, deletions, trip>>
       ELSE UNCHANGED <<now, stateManager, localStorage, dataToBeRestore,
                        isEditMode, editId, formValues, errors, tableRows,
                        tableListeners, deletePopup, restorePopups, reloads,
                        listeners, calls, deletions, trip>>

\* The page is loaded and the DOMContentLoaded handler runs: with #app in the
\* page the application is constructed, without it the handler logs an error
\* and nothing is constructed
Bootstrap(hasApp) ==
    IF hasApp THEN Reload
    ELSE /\ reloads < MaxReloads
         /\ reloads' = reloads + 1
         /\ stateManager' = [data |-> <<>>, deletedData |-> None]
         /\ listeners' = <<>>
         /\ tableRows' = <<>>
         /\ tableListeners' = 0
         /\ dataToBeRestore' = None
         /\ NewForm
         /\ deletePopup' = None
         /\ restorePopups' = <<>>
         /\ last' = [op |-> "bootstrap", id |-> 0]
         /\ trip' = None
         /\ UNCHANGED <<now, localStorage, deletions, calls>>

DoNewComponent == \E m \in ComponentMounts : NewComponent(m[1], m[2])

DoBootstrap == \E hasApp \in BOOLEAN : Bootstrap(hasApp)

MountedSubmitCreate == Mounted /\ DoSubmitCreate

NextMount ==
    \/ MountedSubmitCreate
    \/ DoNewComponent
    \/ DoBootstrap

SpecMount == Init /\ [][NextMount]_vars

-----------------------------------------------------------------------------
(* The two getters of AppStateManager, called by a client between setData,  *)
(* assignments to deletedData and page loads.  A read records its result,   *)
(* and the result of the latest getData since the list was last replaced.   *)
ReadOps == {"getData", "getDeletedData"}

LastActive == IF last.op \in ReadOps THEN last.active ELSE None

\* Variant: the getter saves before it returns
StoreGetDataSaving ==
    /\ last' = [op |-> "getData", id |-> 0, result |-> stateManager.data,
                before |-> LastActive, active |-> Some(stateManager.data)]
    /\ stateManager' = [data |-> SaveData(World, now).data,
                        deletedData |-> SaveData(World, now).deletedData]
    /\ localStorage' = [appStateData |-> SaveData(World, now).appStateData,
                        appStateDeletedData |-> SaveData(World, now).appStateDeletedData]
    /\ UNCHANGED <<now, dataToBeRestore, isEditMode, editId, formValues, errors,
                   tableRows, tableListeners, deletePopup, restorePopups,
                   reloads, deletions, trip, listeners, calls>>

\* getData(): return this.data
StoreGetData ==
    /\ last' = [op |-> "getData", id |-> 0, result |-> stateManager.data,
                before |-> LastActive, active |-> Some(stateManager.data)]
    /\ UNCHANGED <<now, stateManager, localStorage, dataToBeRestore, isEditMode,
                   editId, formValues, errors, tableRows, tableListeners,
                   deletePopup, restorePopups, reloads, deletions, trip,
                   listeners, calls>>

\* getDeletedData(): the stored history parsed, [] when nothing is stored
StoreGetDeletedData ==
    /\ last' = [op |-> "getDeletedData", id |-> 0,
                result |-> GetDeletedData(World), active |-> LastActive]
    /\ UNCHANGED <<now, stateManager, localStorage, dataToBeRestore, isEditMode,
                   editId, formValues, errors, tableRows, tableListeners,
                   deletePopup, restorePopups, reloads, deletions, trip,
                   listeners, calls>>

DoStoreSetDataShort ==
    \E x \in StoreLists(1), t \in Times(Limits) : StoreSetData(x, t, Limits)

NextRead ==
    \/ DoStoreSetDataShort
    \/ DoStoreStage
    \/ StoreGetData
    \/ StoreGetDeletedData
    \/ Reload

SpecRead == Init /\ [][NextRead]_vars

-----------------------------------------------------------------------------
(* The emitter with callbacks that call it back: removeF removes f from the  *)
(* name being dispatched, onG registers g under it; f and g do nothing.      *)
RunNames == {"ping"}

RunCallbacks == {"f", "g", "removeF", "onG"}

\* The registry after the body of a callback invoked for eventName has run
RunCallback(reg, eventName, callback) ==
    IF callback = "removeF" THEN Remove(reg, eventName, "f")
    ELSE IF callback = "onG" THEN On(reg, eventName, "g")
    ELSE reg

\* eventListeners.forEach(...) over the array emit has read: index k of the
\* len elements the array had when forEach began.  st.arr is that array,
\* st.same tells that this.listeners[eventName] is still that very array: on
\* pushes onto it, remove puts a new array (filter) in its place
RECURSIVE ForEachRunning(_, _, _, _, _)
ForEachRunning(st, eventName, args, k, len) ==
    IF k > len THEN st
    ELSE LET callback == st.arr[k]
         IN  ForEachRunning(
                 [reg |-> RunCallback(st.reg, eventName, callback),
                  arr |-> IF callback = "onG" /\ st.same
                          THEN Append(st.arr, "g") ELSE st.arr,
                  same |-> st.same /\ callback # "removeF",
                  invoked |-> Append(st.invoked,
                                     [callback |-> callback, args |-> args])],
                 eventName, args, k + 1, len)

\* emit(eventName, ...args) with such callbacks: the registry it leaves and
\* the invocations it makes
EmitRunning(reg, eventName, args) ==
    IF eventName \in DOMAIN reg
    THEN ForEachRunning([reg |-> reg, arr |-> reg[eventName], same |-> TRUE,
                         invoked |-> <<>>],
                        eventName, args, 1, Len(reg[eventName]))
    ELSE [reg |-> reg, arr |-> <<>>, same |-> TRUE, invoked |-> <<>>]

BusEmitRunning(eventName, args) ==
    /\ listeners' = EmitRunning(listeners, eventName, args).reg
    /\ \A name \in DOMAIN listeners' : Len(listeners'[name]) <= MaxSubscribers + 1
    /\ calls' = EmitRunning(listeners, eventName, args).invoked
    /\ last' = [op |-> "emit", id |-> 0, eventName |-> eventName, args |-> args,
                threw |-> FALSE,
                before |-> IF eventName \in DOMAIN listeners
                           THEN listeners[eventName] ELSE <<>>]
    /\ UNCHANGED pageVars

DoRunOn ==
    \E eventName \in RunNames, callback \in RunCallbacks : BusOn(eventName, callback)

DoRunRemove ==
    \E eventName \in RunNames, callback \in RunCallbacks : BusRemove(eventName, callback)

DoBusEmitRunning ==
    \E eventName \in RunNames, args \in BusArgs : BusEmitRunning(eventName, args)

NextDispatch ==
    \/ DoRunOn
    \/ DoRunRemove
    \/ DoBusEmitRunning

SpecDispatch == Init /\ [][NextDispatch]_vars

-----------------------------------------------------------------------------
(* One click on a control of a table row, handled by every click listener   *)
(* the renders have added to the table's container, one after the other.    *)
Controls == {"edit", "delete", "restore"}

\* The .delete-popup elements in the document after n listeners have handled
\* a click on a delete control, open of them being there before
RECURSIVE DeleteClicks(_, _)
DeleteClicks(n, open) ==
    IF n = 0 THEN open
    ELSE DeleteClicks(n - 1, IF open = 0 THEN open + 1 ELSE open)

TableClick(control, i) ==
    /\ i \in 1..Len(tableRows)
    /\ last' = [op |-> "click", id |-> tableRows[i], control |-> control,
                emitted |-> IF control = "edit" THEN tableListeners ELSE 0,
                opened |-> IF control = "restore" THEN tableListeners ELSE 0,
                deletePopups |->
                    IF control = "delete"
                    THEN DeleteClicks(tableListeners,
                                      IF deletePopup = None THEN 0 ELSE 1)
                    ELSE IF deletePopup = None THEN 0 ELSE 1]
    /\ IF control = "edit"
       THEN /\ EditItem(tableRows[i])
            /\ UNCHANGED <<deletePopup, restorePopups>>
       ELSE IF control = "delete"
       THEN /\ deletePopup' = IF deletePopup = None THEN Some(tableRows[i])
                              ELSE deletePopup
            /\ UNCHANGED <<dataToBeRestore, isEditMode, editId, formValues,
                           restorePopups>>
       ELSE /\ OpenRestorePopups + tableListeners <= MaxOpenPopups
            /\ restorePopups' = Append(restorePopups, OpenRestorePopup(tableRows[i]))
            /\ UNCHANGED <<dataToBeRestore, isEditMode, editId, formValues,
                           deletePopup>>
    /\ UNCHANGED <<now, stateManager, localStorage, errors, tableRows,
                   tableListeners, reloads, deletions, trip, listeners, calls>>

DoTableClick == \E control \in Controls, i \in 1..Len(tableRows) : TableClick(control, i)

NextClicks ==
    \/ DoSubmitCreate
    \/ DoTableClick
    \/ CancelDelete
    \/ DoCloseRestorePopup

SpecClicks == Init /\ [][NextClicks]_vars

-----------------------------------------------------------------------------
(* Vocabulary of the properties *)
Data == stateManager.data

\* A record version: its id and field values, whatever its time stamp
Version(r) == [id |-> r.id, val |-> r.val, age |-> r.age]

SameVersion(e, r) == IsRecord(e) /\ Version(e) = Version(r)

Versions(s) == [i \in 1..Len(s) |-> Version(s[i])]

Count(h, r) == Len(SelectSeq(h, LAMBDA e : SameVersion(e, r)))

\* The active list as a reader of localStorage finds it
PersistedActive ==
    IF localStorage.appStateData # None THEN localStorage.appStateData[1] ELSE <<>>

ActiveIds == {Data[i].id : i \in 1..Len(Data)}

RECURSIVE RemoveFirst(_, _)
RemoveFirst(h, e) ==
    IF h = <<>> THEN <<>>
    ELSE IF Head(h) = e THEN Tail(h)
    ELSE <<Head(h)>> \o RemoveFirst(Tail(h), e)

LastThree(s) == SubSeq(s, Len(s) - 2, Len(s))

\* The callbacks an emit of the name would invoke, in order
Invoked(reg, eventName) ==
    [i \in 1..Len(Emit(reg, eventName, <<>>)) |-> Emit(reg, eventName, <<>>)[i].callback]

Registered(reg, eventName) == IF eventName \in DOMAIN reg THEN reg[eventName] ELSE <<>>

-----------------------------------------------------------------------------
\* C1: in every reachable state the persisted deleted history holds at most
\* three entries.
C1_HistoryAtMostThree == Len(History) <= 3

\* C2: deleting an active record R and then restoring the same id gives back
\* the active list of before the delete, with R last and the other records in
\* their order, and leaves the history without the entry of R's deletion (as
\* many entries with R's id as before the delete, none if there were none).
C2_DeleteRestoreRoundTrip ==
    (trip # None /\ trip[1].restored) =>
        /\ Versions(Data) =
             Versions(FilterOut(trip[1].data, trip[1].id) \o <<trip[1].rec>>)
        /\ Len(FilterId(History, trip[1].id)) = trip[1].entries

\* C3: no step hard-deletes: a record version that a step takes out of the
\* active list is in the persisted deleted history right after the step
\* (stated of the steps that start with all active ids distinct).
C3_NoHardDelete ==
    [][(\A i, j \in 1..Len(Data) : i # j => Data[i].id # Data[j].id)
        => \A i \in 1..Len(Data) :
              (\A k \in 1..Len(Data') : Version(Data'[k]) # Version(Data[i]))
                  => \E k \in 1..Len(History') : SameVersion(History'[k], Data[i])]_vars

\* C4: a restore of an entry whose id is in the deleted history takes that
\* entry out of the history and appends it to the active list, everything
\* else unchanged and in order.
C4_RestoreMovesEntry ==
    [][\A g \in 1..Len(restorePopups) : \A j \in 1..Len(restorePopups[g].items) :
          (/\ ClickRestoreAction(g, j, Limits)
           /\ FilterId(History, RowData(restorePopups[g].items, j).id) # <<>>)
              => /\ Data' = Append(Data, RowData(restorePopups[g].items, j))
                 /\ History' = RemoveFirst(History, RowData(restorePopups[g].items, j))]_vars

C6_FourDeletionsKeepThree ==
    (/\ deletions.ok
     /\ Len(deletions.ids) = 4
     /\ Cardinality({deletions.ids[i] : i \in 1..4}) = 4)
        => /\ Len(History) = 3
           /\ {History[i].id : i \in 1..Len(History)} =
                {LastThree(deletions.ids)[i] : i \in 1..3}

\* C7: no two records of the active list share an id.
C7_ActiveIdsUnique ==
    \A i, j \in 1..Len(Data) : i # j => Data[i].id # Data[j].id

\* C8: a valid submit in create-mode prepends the new record: the active list
\* becomes the new record followed by the previous list, the new record holds
\* the submitted values, and the list is one longer.
C8_CreatePrepends ==
    [][\A input \in Inputs, t \in Times(Limits) :
          SubmitCreate(input, t, Limits)
              => /\ Len(Data') = Len(Data) + 1
                 /\ Tail(Data') = Data
                 /\ Data'[1].val = input.val
                 /\ Numeral(Data'[1].age) = input.age]_vars

\* C8 witness: a create has just put a record in front of an older one.
C8_Witness ==
    /\ last.op = "formSubmit"
    /\ Len(Data) = 2
    /\ Data[1].id = last.id
    /\ Data[1].val # Data[2].val

C10_UpdateStagesPrior ==
    [][\A input \in Inputs, t \in Times(Limits) :
          SubmitUpdate(input, t, Limits)
              => /\ Find(Data, editId[1]) # None
                 /\ Count(History', Find(Data, editId[1])[1]) =
                       Count(History, Find(Data, editId[1])[1]) + 1
                 /\ stateManager'.deletedData = None]_vars

\* C10 witness: an update has just changed a value and the history ends with
\* the value of before.
C10_Witness ==
    /\ last.op = "updateFormData"
    /\ stateManager.deletedData = None
    /\ History # <<>>
    /\ HasId(History[Len(History)], last.id)
    /\ \E i \in 1..Len(Data) :
          Data[i].id = last.id /\ Data[i].val # History[Len(History)].val

-----------------------------------------------------------------------------
\* C11: a confirmed delete and a restore leave the form as it was: the same
\* mode, bound to the same id.
C11_FormModeUnaffected ==
    [][((\E text \in Texts, t \in Times(Limits) :
            ConfirmDelete(text, t, Limits) /\ ConfirmAccepted(text))
        \/ (\E g \in 1..Len(restorePopups) :
               \E j \in 1..Len(restorePopups[g].items) :
                   ClickRestoreAction(g, j, Limits)))
          => /\ isEditMode' = isEditMode
             /\ editId' = editId]_vars

\* C12: after a valid submit, create or update, the form is in create-mode,
\* bound to no id, its fields empty.
C12_SubmitLeavesCreateMode ==
    [][\A input \in Inputs, t \in Times(Limits) :
          (SubmitCreate(input, t, Limits) \/ SubmitUpdate(input, t, Limits))
              => /\ ~isEditMode'
                 /\ editId' = None
                 /\ formValues' = [val |-> "", age |-> <<>>]]_vars

\* C12 witness: an update has just completed on a form that was bound to a
\* record, and the form is empty and unbound.
C12_Witness ==
    /\ last.op = "updateFormData"
    /\ last.id \in ActiveIds
    /\ ~isEditMode
    /\ editId = None
    /\ formValues.val = ""

\* C13: a click on the edit button of an active record binds the form to that
\* id in edit-mode with the record's values in the fields, and leaves the
\* active list, the history and the staging slot as they were.
C13_EditBindsForm ==
    [][\A i \in 1..Len(tableRows) :
          (ClickEdit(i) /\ tableRows[i] \in ActiveIds)
              => /\ isEditMode'
                 /\ editId' = <<tableRows[i]>>
                 /\ formValues'.val = Find(Data, tableRows[i])[1].val
                 /\ ParseInt(formValues'.age) = Find(Data, tableRows[i])[1].age
                 /\ stateManager' = stateManager
                 /\ localStorage' = localStorage]_vars

\* C13 witness: the form is bound to the second of two records and holds its
\* value.
C13_Witness ==
    /\ isEditMode
    /\ Len(Data) = 2
    /\ editId = <<Data[2].id>>
    /\ Data[1].id # Data[2].id
    /\ formValues.val = Data[2].val
    /\ Data[1].val # Data[2].val

\* C14: a submit with a field that fails validation emits no event (the last
\* event handled stays the last) and leaves the active list, the history and
\* the form's mode and binding as they were.
C14_InvalidSubmitChangesNothing ==
    [][\A input \in Inputs, t \in Times(Limits) :
          (/\ FieldErrors(input) # {}
           /\ \/ SubmitCreate(input, t, Limits)
              \/ SubmitUpdate(input, t, Limits)
              \/ SubmitRejected(input))
              => /\ Data' = Data
                 /\ History' = History
                 /\ last' = last
                 /\ isEditMode' = isEditMode
                 /\ editId' = editId]_vars

\* C14 witness: a submit has been rejected on a form bound to an active
\* record, after an update had put an entry in the history.
C14_Witness ==
    /\ errors # {}
    /\ isEditMode
    /\ editId # None /\ editId[1] \in ActiveIds
    /\ History # <<>>

\* C15: an editItem or deleteData event for an id that no active record has
\* leaves the contents of the active list and of the history as they were.
C15_AbsentIdEditDeleteNoOp ==
    [][\A id \in EmitIds :
          (/\ id \notin ActiveIds
           /\ \/ EmitEditItem(id)
              \/ \E t \in Times(Limits) : EmitDeleteData(id, t, Limits))
              => /\ Data' = Data
                 /\ History' = History]_vars

\* C15 witness: a deleteData event for an absent id has just been handled
\* with a record in the active list and an entry in the history.
C15_Witness ==
    /\ last.op = "deleteData"
    /\ trip = None
    /\ last.id \notin ActiveIds
    /\ Data # <<>>
    /\ History # <<>>

\* C16: a restoreDeleteData event for an id that no history entry has leaves
\* the active list and the history as they were, also when an active record
\* has that id.
C16_AbsentIdRestoreNoOp ==
    [][\A id \in EmitIds :
          (EmitRestoreDeleteData(id, Limits) /\ FilterId(History, id) = <<>>)
              => /\ Data' = Data
                 /\ History' = History]_vars

\* C17 as stated: when the text typed in the confirmation is not the word
\* "delete", no deleteData event is emitted, the active list and the history
\* are unchanged and the popup stays open.
C17_MismatchAborts ==
    [][\A text \in Texts, t \in Times(Limits) :
          (ConfirmDelete(text, t, Limits) /\ text # <<"d", "e", "l", "e", "t", "e">>)
              => /\ last'.op # "deleteData"
                 /\ Data' = Data
                 /\ History' = History
                 /\ deletePopup' = deletePopup]_vars

\* C17 amended: when the text typed, with the blanks around it taken off and
\* in lower case, is not "delete", no deleteData event is emitted, the active
\* list and the history are unchanged and the popup stays open.
C17_NormalisedMismatchAborts ==
    [][\A text \in Texts, t \in Times(Limits) :
          (/\ ConfirmDelete(text, t, Limits)
           /\ ToLowerCase(Trim(text)) # <<"d", "e", "l", "e", "t", "e">>)
              => /\ last'.op # "deleteData"
                 /\ Data' = Data
                 /\ History' = History
                 /\ deletePopup' = deletePopup]_vars

\* C17 witness: a confirmation has just been refused and the popup is still
\* open over an active record.
C17_Witness ==
    /\ last.op = "alert"
    /\ deletePopup = <<last.id>>
    /\ last.id \in ActiveIds

\* C18: cancelling the delete confirmation or closing a restore popup leaves
\* the active list, the staging slot, the history and the form's mode and
\* binding as they were, and no event is handled.
C18_DismissChangesNothing ==
    [][(CancelDelete \/ \E g \in 1..Len(restorePopups) : CloseRestorePopup(g))
          => /\ stateManager' = stateManager
             /\ localStorage' = localStorage
             /\ isEditMode' = isEditMode
             /\ editId' = editId
             /\ last' = last]_vars

\* C18 witness: a confirmation popup that had refused a text has been
\* cancelled: it is gone, no event was handled since, the record is active.
C18_Witness ==
    /\ last.op = "alert"
    /\ deletePopup = <<>>
    /\ last.id \in ActiveIds

\* C19: from a setData(x) until the next one, the list getData() returns is
\* x: the same records in the same order.
C19_SetGetRoundTrip ==
    last.op = "setData" => stateManager.data = last.newData

\* C19 witness: setData has just replaced the list by two different records
\* while flushing a staged record into the history.
C19_Witness ==
    /\ last.op = "setData"
    /\ Len(Data) = 2
    /\ Data[1] # Data[2]
    /\ stateManager.deletedData = None
    /\ History # <<>>

\* C20: in every state, the active list persisted in storage is the active
\* list in memory: the same records with the same values in the same order.
C20_PersistedEqualsMemory == PersistedActive = Data

\* C20 witness: an update has completed on a list of two records and storage
\* holds the same two records.
C20_Witness ==
    /\ last.op = "updateFormData"
    /\ Len(Data) = 2
    /\ Data[1].id # Data[2].id
    /\ localStorage.appStateData = <<Data>>

-----------------------------------------------------------------------------
\* C21: a record staged in the slot is consumed by the next setData: that call
\* appends the record, stamped with the time of the call, to the persisted
\* history once and empties the slot; a setData with no record staged appends
\* nothing.
C21_StagedConsumedOnce ==
    [][StoreSetData(stateManager'.data, now', Limits)
          => /\ stateManager'.deletedData = None
             /\ IF stateManager.deletedData # None
                   /\ IsRecord(stateManager.deletedData[1])
                THEN History' = Append(History,
                         [stateManager.deletedData[1] EXCEPT !.timeStamp = now'])
                ELSE History' = History]_vars

\* C22: right after setDeletedData(xs) the persisted history is xs: the same
\* records in the same order, whatever was stored before.
C22_SetDeletedHistoryRoundTrip ==
    last.op = "setDeletedData" => History = last.newDeletedData

\* C23: in every state, also after a reload, every element of the persisted
\* deleted history is one record with a deletion time stamp, never a nested
\* list.
C23_HistoryHoldsRecords ==
    \A i \in 1..Len(History) : IsRecord(History[i]) /\ History[i].timeStamp \in 1..MaxTime

C28_TableShowsActive ==
    /\ Len(tableRows) = Len(Data)
    /\ \A i \in 1..Len(Data) : tableRows[i] = Data[i].id

\* C28 witness: a restore has just completed and the table shows the two
\* active records, which have different ids.
C28_Witness ==
    /\ last.op = "restoreDeleteData"
    /\ Len(Data) = 2
    /\ Data[1].id # Data[2].id
    /\ tableRows = <<Data[1].id, Data[2].id>>

\* C25: an emit invokes the callbacks registered under the name, once per
\* registration, in the order of registration (each registration goes behind
\* the earlier ones), every one with the arguments given; callbacks
\* registered under other names only are not invoked.
C25_EmitInvokesInOrder ==
    [][/\ \A eventName \in BusNames, args \in BusArgs :
             BusEmit(eventName, args)
                 => /\ Len(calls') = Len(Registered(listeners, eventName))
                    /\ \A i \in 1..Len(calls') :
                          calls'[i] = [callback |-> listeners[eventName][i],
                                       args |-> args]
       /\ \A eventName \in BusNames, callback \in Callbacks :
             (BusOn(eventName, callback) /\ ~last'.threw)
                 => Invoked(listeners', eventName) =
                       Append(Invoked(listeners, eventName), callback)]_vars

\* C25 witness: an emit has just invoked twice a callback registered twice,
\* while another callback is registered under another name.
C25_Witness ==
    /\ last.op = "emit"
    /\ last.eventName = "ping"
    /\ Registered(listeners, "ping") = <<"f", "f">>
    /\ Registered(listeners, "pong") = <<"g">>
    /\ calls = <<[callback |-> "f", args |-> last.args],
                 [callback |-> "f", args |-> last.args]>>

\* C26: after remove(eventName, callback) an emit of the name does not invoke
\* the callback; it invokes the other callbacks of the name in the order they
\* had, and what an emit of any other name invokes is unchanged.
C26_RemoveUnsubscribes ==
    [][\A eventName \in BusNames, callback \in Callbacks :
          BusRemove(eventName, callback)
              => /\ \A i \in 1..Len(Invoked(listeners', eventName)) :
                       Invoked(listeners', eventName)[i] # callback
                 /\ Invoked(listeners', eventName) =
                       SelectSeq(Invoked(listeners, eventName),
                                 LAMBDA c : c # callback)
                 /\ \A other \in (BusNames \cup DOMAIN listeners) \ {eventName} :
                       Invoked(listeners', other) = Invoked(listeners, other)]_vars

\* C26 witness: a callback has just been removed from a name that keeps
\* another callback, and is still registered under another name.
C26_Witness ==
    /\ last.op = "remove"
    /\ last.eventName = "ping"
    /\ last.callback = "f"
    /\ last.removed > 0
    /\ Registered(listeners, "ping") = <<"g">>
    /\ Registered(listeners, "pong") = <<"f">>

\* C27: an emit or a remove under a name that has no callback, registered
\* before or never, throws nothing, invokes no callback and leaves the
\* registry as it was.
C27_UnknownNameNoError ==
    [][\A eventName \in BusNames :
          (/\ Registered(listeners, eventName) = <<>>
           /\ \/ \E args \in BusArgs : BusEmit(eventName, args)
              \/ \E callback \in Callbacks : BusRemove(eventName, callback))
              => /\ ~last'.threw
                 /\ last'.op = "emit" => calls' = <<>>
                 /\ last'.op = "remove" => calls' = calls
                 /\ listeners' = listeners]_vars

-----------------------------------------------------------------------------
\* C29: validateField gives null for a field name that has no rules;
\* otherwise the message of the first rule, in the order the field declares
\* them, that the value fails, or null when the value passes them all.  An
\* empty name gives the required message, not the length one.
C29_FirstFailingRule ==
    last.op = "validateField" =>
        /\ last.fieldName \notin DOMAIN ValidationRules => last.result = None
        /\ last.fieldName \in DOMAIN ValidationRules =>
              LET rules == ValidationRules[last.fieldName]
                  fails(i) == ~Logic(last.fieldName, rules[i], last.value, last.today)
              IN  /\ (\A i \in 1..Len(rules) : ~fails(i)) => last.result = None
                  /\ \A i \in 1..Len(rules) :
                        (fails(i) /\ \A j \in 1..(i - 1) : ~fails(j))
                            => last.result = Some(ErrorMessage(last.fieldName, rules[i]))
        /\ (last.fieldName = "name" /\ last.value = <<>>)
              => last.result = Some("Name is required")

\* C29 witness: validateField has just been called on an empty name, which
\* fails two rules, and has given the message of the first.
C29_Witness ==
    /\ last.op = "validateField"
    /\ last.fieldName = "name"
    /\ last.value = <<>>
    /\ last.result = <<"Name is required">>

\* C30: two calls of validateField with the same field name and the same
\* value give the same result, whatever was called before and whatever the
\* date at each call.
C30_ValidateDeterministic ==
    [][\A fieldName \in FieldNames, today \in Years :
          \A value \in ValuesOf(fieldName) :
              (/\ CallValidateField(fieldName, value, today)
               /\ last.op = "validateField"
               /\ last.fieldName = fieldName
               /\ last.value = value)
                  => last'.result = last.result]_vars

-----------------------------------------------------------------------------
\* C31: validateField("age", v) gives null exactly when v is the numeral of an
\* integer from 10 to 100: "15", "10" and "100" pass, "5", "9" and "101" fail,
\* and a text that is not an integer numeral (blanks around it aside) fails.
C31_AgeExactlyIntegerInRange ==
    (last.op = "validateField" /\ last.fieldName = "age") =>
        (last.result = None
            <=> /\ Trim(last.value) # <<>>
                /\ AllDigits(Trim(last.value))
                /\ ParseDigits(Trim(last.value), 0) \in 10..100)

-----------------------------------------------------------------------------
\* C32: a submit validates every field, also after an earlier field failed:
\* afterwards the error map has an entry exactly for the fields whose value
\* fails validation, and entries of fields that now pass are gone.
C32_SubmitValidatesEveryField ==
    [][\A input \in Inputs :
          (\/ SubmitRejected(input)
           \/ \E t \in Times(Limits) : SubmitCreate(input, t, Limits)
           \/ \E t \in Times(Limits) : SubmitUpdate(input, t, Limits))
          => errors' = {f \in {"val", "age"} :
                          IF f = "age"
                          THEN ValidateField("age", input.age, 2024) # None
                          ELSE input.val = ""}]_vars

\* Both fields failed in one submit: the second was validated after the first
\* had failed
C32_Witness == errors = {"val", "age"}

-----------------------------------------------------------------------------
\* C33: constructing a view or the controller on a mount point that is not
\* in the page throws in the constructor: nothing is subscribed and the store
\* and the storage stay as they were; a page load that finds no #app
\* constructs nothing, subscribes nothing and leaves the storage alone.
C33_MissingMountAborts ==
    [][/\ \A m \in ComponentMounts :
             (m[2] \notin Document /\ NewComponent(m[1], m[2]))
                => /\ last'.threw
                   /\ listeners' = listeners
                   /\ stateManager' = stateManager
                   /\ localStorage' = localStorage
                   /\ tableRows' = tableRows
       /\ Bootstrap(FALSE)
             => /\ listeners' = <<>>
                /\ stateManager' = [data |-> <<>>, deletedData |-> None]
                /\ localStorage' = localStorage]_vars

\* C33 witness: the controller's constructor has thrown in a page whose
\* storage holds records
C33_Witness ==
    /\ last.op = "new"
    /\ last.kind = "AppComponent"
    /\ last.threw
    /\ localStorage.appStateData # None

-----------------------------------------------------------------------------
\* C34: a getData that follows an earlier getData with no setData (or page
\* load) in between returns the same list, and neither getData nor
\* getDeletedData changes the manager's fields or the storage.
C34_ReadsArePure ==
    [][/\ (last'.op = "getData" /\ last'.before # None)
             => last'.result = last'.before[1]
       /\ (StoreGetData \/ StoreGetDeletedData)
             => /\ stateManager' = stateManager
                /\ localStorage' = localStorage]_vars

\* C34 witness: a second getData of a non-empty list, made while a record is
\* staged and a history is stored
C34_Witness ==
    /\ last.op = "getData"
    /\ last.before # None
    /\ last.result # <<>>
    /\ stateManager.deletedData # None
    /\ History # <<>>

-----------------------------------------------------------------------------
\* C35: while the form is in edit-mode bound to an id, a record with that id
\* is active and the controller's remembered record is that record; so every
\* accepted update replaces exactly one active record and adds exactly that
\* record's prior version to the stored history.
C35_EditBindingAndSingleReplace ==
    [][/\ isEditMode' =>
             /\ editId' # None
             /\ Len(FilterId(Data', editId'[1])) = 1
             /\ dataToBeRestore' = Find(Data', editId'[1])
       /\ (isEditMode /\ ~isEditMode' /\ last'.op = "updateFormData") =>
             /\ Len(Data') = Len(Data)
             /\ Cardinality({i \in 1..Len(Data) : Data[i].id = last'.id}) = 1
             /\ \A i \in 1..Len(Data) : Data[i].id # last'.id => Data'[i] = Data[i]
             /\ Len(History') = Len(History) + 1
             /\ SameVersion(History'[Len(History')], Find(Data, last'.id)[1])]_vars

-----------------------------------------------------------------------------
\* C36: a create leaves the persisted history as it was, also when it is the
\* first change after a page load over a stored history; right after a page
\* load nothing is staged.
C36_CreateLeavesHistory ==
    [][/\ (last'.op = "formSubmit" /\ Len(Data') = Len(Data) + 1)
             => History' = History
       /\ last'.op = "load" => stateManager'.deletedData = None]_vars

-----------------------------------------------------------------------------
\* C37: within one dispatch, once a callback has removed f from the name
\* being dispatched, f is not invoked any more by that dispatch; and g,
\* registered by a callback during the dispatch, is invoked by it only as
\* often as it was registered when the dispatch began.
C37_RemoveAndOnDuringDispatch ==
    last.op = "emit" =>
        /\ \A i, j \in 1..Len(calls) :
              (i < j /\ calls[i].callback = "removeF") => calls[j].callback # "f"
        /\ Len(SelectSeq(calls, LAMBDA c : c.callback = "g"))
              = Len(SelectSeq(last.before, LAMBDA c : c = "g"))

-----------------------------------------------------------------------------
\* C38: one click on an edit control emits editItem once and one click on a
\* restore control opens one restore popup, however often the table has been
\* rendered; and no more than one delete popup is in the document.
C38_OneClickOneEffect ==
    last.op = "click" =>
        /\ last.control = "edit" => last.emitted = 1
        /\ last.control = "restore" => last.opened = 1
        /\ last.deletePopups <= 1

-----------------------------------------------------------------------------
\* C39: the Restore button of entry j of a restore popup restores entry j:
\* the record that becomes active has the field values of that entry, also
\* when other entries of the popup carry the same id.
C39_RestoresClickedEntry ==
    [][\A g \in 1..Len(restorePopups) :
          \A j \in 1..Len(restorePopups[g].items) :
             ClickRestoreAction(g, j, Limits)
                => /\ Data' # <<>>
                   /\ SameVersion(Data'[1], restorePopups[g].items[j])]_vars

====
